---- MODULE Spec2Model ----
(***************************************************************************)
(* szurubooru, server/szurubooru/util/users.py: the helpers that create    *)
(* and update user records.                                                *)
(*                                                                         *)
(* A Python string is the sequence of its characters' code points, so      *)
(* that strip() and re.match() are computed over the whole of Unicode.     *)
(* A value that is not a string is a tuple headed by a negative number,    *)
(* which no code point is.  A user record is a db.User: every column       *)
(* starts as None.  The session's users live in numbered slots; a slot     *)
(* outside `created` holds a blank db.User().                              *)
(***************************************************************************)
EXTENDS Integers, Sequences, FiniteSets, TLC

(* ------------------------------ bounds -------------------------------- *)
\* number of user objects
MaxUsers == 2
\* longest string passed in as a name, a password, an email or a rank
MaxLen == 2
\* number of distinct readings of the wall clock
MaxTime == 2
\* number of calls in one behaviour
MaxCalls == 3

(* ------------------------------ values -------------------------------- *)
None == <<-1>>

\* "\n"
Newline == 10

\* The characters str.strip() with no argument removes, those str.isspace()
\* is true of: \t \n \x0b \f \r, U+001C to U+001F, the blank, U+0085, U+00A0,
\* U+1680, U+2000 to U+200A, U+2028, U+2029, U+202F, U+205F and U+3000.
Whitespace ==
    (9..13) \cup (28..31) \cup {32, 133, 160, 5760} \cup (8192..8202)
        \cup {8232, 8233, 8239, 8287, 12288}

StrSet(chars, n) == UNION {[1..k -> chars] : k \in 0..n}

\* str.strip(): leading and trailing whitespace removed
RECURSIVE LStrip(_)
LStrip(s) ==
    IF s # <<>> /\ Head(s) \in Whitespace THEN LStrip(Tail(s)) ELSE s

RECURSIVE RStrip(_)
RStrip(s) ==
    IF s # <<>> /\ s[Len(s)] \in Whitespace
    THEN RStrip(SubSeq(s, 1, Len(s) - 1))
    ELSE s

Strip(s) == RStrip(LStrip(s))

\* list.index(x): position of the first occurrence (the caller checks membership)
Index(list, x) == CHOOSE i \in 1..Len(list) :
                      /\ list[i] = x
                      /\ \A j \in 1..(i - 1) : list[j] # x

InList(list, x) == \E i \in 1..Len(list) : list[i] = x

\* the `hi` of a repetition {lo,} with no upper limit
Unbounded == -1

\* a character class of a regex: the characters listed, or with `negated`
\* every character but those
InClass(c, cls) == (c \in cls.chars) # cls.negated

\* the whole of s is lo to hi characters of the class
FullMatch(regex, s) ==
    /\ Len(s) >= regex.lo
    /\ regex.hi = Unbounded \/ Len(s) <= regex.hi
    /\ \A i \in 1..Len(s) : InClass(s[i], regex.cls)

\* re.match(regex, s), no flags, for the anchored patterns ^[cls]{lo,hi}$ of
\* the configuration: "$" matches at the end of s and also just before a
\* newline that ends s
ReMatch(regex, s) ==
    \/ FullMatch(regex, s)
    \/ /\ s # <<>>
       /\ s[Len(s)] = Newline
       /\ FullMatch(regex, SubSeq(s, 1, Len(s) - 1))

(* --------------------------- collaborators ---------------------------- *)
\* the characters names, passwords, emails and ranks are typed from:
\* U+1680 (a space), "\n", "a"
NameChars == {5760, Newline, 97}
\* "a", "\n"
PasswordChars == {97, Newline}
\* " ", U+3000 (a space), "@", "."
EmailChars == {32, 12288, 64, 46}
\* " ", "\t", "u", "a"
RankChars == {32, 9, 117, 97}
\* "1" to "9"
GenDigits == <<49, 50, 51, 52, 53, 54, 55, 56, 57>>

\* the class "." of a regex stands for: any character but the newline
Dot == [chars |-> {Newline}, negated |-> TRUE]

\* the class [a]
LetterA == [chars |-> {97}, negated |-> FALSE]

NameInputs == StrSet(NameChars, MaxLen)
PasswordInputs == StrSet(PasswordChars, MaxLen)
EmailInputs == StrSet(EmailChars, MaxLen)
RankInputs == StrSet(RankChars, MaxLen)

\* config.config['service']['user_ranks'], lowest privilege first
\* "u", "uu", "a"
UserRanks == << <<117>>, <<117, 117>>, <<97>> >>

\* ^[a]{1,2}$
NameRegex == [cls |-> LetterA, lo |-> 1, hi |-> 2]
\* ^.{2,}$
AnyPasswordRegex == [cls |-> Dot, lo |-> 2, hi |-> Unbounded]
\* ^[a]{1,}$
LetterPasswordRegex == [cls |-> LetterA, lo |-> 1, hi |-> Unbounded]

\* config.config['service']: the deployments considered.  The default rank
\* is one of the listed ranks.
Configs ==
    { [user_name_regex |-> NameRegex,
       password_regex |-> AnyPasswordRegex,
       default_user_rank |-> UserRanks[3],
       user_ranks |-> UserRanks],
      [user_name_regex |-> NameRegex,
       password_regex |-> LetterPasswordRegex,
       default_user_rank |-> UserRanks[2],
       user_ranks |-> UserRanks] }

\* auth.create_password(): a random string, taken never to repeat.  The
\* strings are interchangeable, so the k-th call is given the k-th string of
\* the generator's pattern: "b1", "b2", ...
create_password(k) == <<98, GenDigits[k]>>

\* auth.get_password_hash(salt, password): a digest of salt and password
get_password_hash(salt, password) == <<-3, salt, password>>

\* the password a digest was computed from
PasswordOf(hash) == hash[3]

\* misc.is_valid_email(email): nothing, or one "@" with a "." after it
is_valid_email(email) ==
    \/ email = None
    \/ email = <<>>
    \/ /\ Cardinality({i \in 1..Len(email) : email[i] = 64}) = 1
       /\ \E i, j \in 1..Len(email) : i < j /\ email[i] = 64 /\ email[j] = 46

\* datetime.now(): the readings the wall clock can give
Times == { <<-2, t>> : t \in 1..MaxTime }

\* "gravatar"
AVATAR_GRAVATAR == <<103, 114, 97, 118, 97, 116, 97, 114>>

\* db.User(): a fresh record, no column set
NewUser ==
    [name |-> None, password_salt |-> None, password_hash |-> None,
     email |-> None, access_rank |-> None, creation_time |-> None,
     last_login_time |-> None, avatar_style |-> None]

Fields == DOMAIN NewUser

(* ------------------------------- state -------------------------------- *)
VARIABLES
    config,     \* the configuration the process runs with
    users,      \* slot -> user record
    created,    \* the slots create_user has returned a user for
    issued,     \* number of values auth.create_password() has returned so far
    held,       \* slot -> the (salt, hash) pairs the user held and has had replaced
    calls,      \* number of calls made
    last,       \* the last call: operation, target, acting user, exception and
                \* its message, return value, regex checks made and passed
    args,       \* the arguments create_user is called with, where they are fixed
                \* at the start; None where every call chooses its own
    start       \* the user records as they were at the start

vars == <<config, users, created, issued, held, calls, last, args, start>>

Slots == 1..MaxUsers

OK == "ok"
ValidationError == "ValidationError"
AuthError == "AuthError"
ValueError == "ValueError"

NameMsg == "Name must satisfy regex"
PasswordMsg == "Password must satisfy regex"
EmailMsg == "is not a vaild email address"
RankMsg == "Bad access rank"
HigherRankMsg == "Trying to set higher access rank than one has"
NotInListMsg == "is not in list"

(* ----------------------------- operations ----------------------------- *)
\* Every function gives the exception raised (or OK) with its message, the
\* user record as the call leaves it, and the regex checks made and passed.

Raised(exc, msg, user) == [exc |-> exc, msg |-> msg, user |-> user, checks |-> {}]

Returned(user, checks) == [exc |-> OK, msg |-> "", user |-> user, checks |-> checks]

(* ---------- faulty variants, which the properties must reject ---------- *)
\* assigns before validating
update_name_assign_first(cfg, user, name) ==
    LET stripped == Strip(name)
    IN  IF ~ReMatch(cfg.user_name_regex, stripped)
        THEN Raised(ValidationError, NameMsg, [user EXCEPT !.name = stripped])
        ELSE Returned([user EXCEPT !.name = stripped], {"name"})

\* no regex check
update_password_unchecked(cfg, user, password, salt) ==
    Returned([user EXCEPT
                !.password_salt = salt,
                !.password_hash = get_password_hash(salt, password)],
             {})

\* keeps the salt the user already has
update_password_keep_salt(cfg, user, password, salt) ==
    LET s == IF user.password_salt = None THEN salt ELSE user.password_salt
    IN  IF ~ReMatch(cfg.password_regex, password)
        THEN Raised(ValidationError, PasswordMsg, user)
        ELSE Returned([user EXCEPT
                         !.password_salt = s,
                         !.password_hash = get_password_hash(s, password)],
                      {"password"})

\* the empty string is stored as it is
update_email_keep_empty(user, email) ==
    LET e == Strip(email)
    IN  IF ~is_valid_email(e)
        THEN Raised(ValidationError, EmailMsg, user)
        ELSE Returned([user EXCEPT !.email = e], {})

\* <= where the code has <
update_rank_strict(cfg, user, rank, authenticated_user) ==
    LET stripped == Strip(rank)
        available_access_ranks == cfg.user_ranks
    IN  IF ~InList(available_access_ranks, stripped)
        THEN Raised(ValidationError, RankMsg, user)
        ELSE IF ~InList(available_access_ranks, authenticated_user.access_rank)
        THEN Raised(ValueError, NotInListMsg, user)
        ELSE IF Index(available_access_ranks, authenticated_user.access_rank)
                    <= Index(available_access_ranks, stripped)
        THEN Raised(AuthError, HigherRankMsg, user)
        ELSE Returned([user EXCEPT !.access_rank = stripped], {})

\* stores the rank as passed in, not the stripped one
update_rank_unstripped(cfg, user, rank, authenticated_user) ==
    LET stripped == Strip(rank)
        available_access_ranks == cfg.user_ranks
    IN  IF ~InList(available_access_ranks, stripped)
        THEN Raised(ValidationError, RankMsg, user)
        ELSE IF ~InList(available_access_ranks, authenticated_user.access_rank)
        THEN Raised(ValueError, NotInListMsg, user)
        ELSE IF Index(available_access_ranks, authenticated_user.access_rank)
                    < Index(available_access_ranks, stripped)
        THEN Raised(AuthError, HigherRankMsg, user)
        ELSE Returned([user EXCEPT !.access_rank = rank], {})

\* no comparison with the acting user's rank
update_rank_unauthorised(cfg, user, rank, authenticated_user) ==
    LET stripped == Strip(rank)
        available_access_ranks == cfg.user_ranks
    IN  IF ~InList(available_access_ranks, stripped)
        THEN Raised(ValidationError, RankMsg, user)
        ELSE Returned([user EXCEPT !.access_rank = stripped], {})

\* stamps the creation time as well
bump_login_time_both(user, now) ==
    Returned([user EXCEPT !.last_login_time = now, !.creation_time = now], {})

\* returns the salt
reset_password_returns_salt(user, password, salt) ==
    [exc |-> OK, msg |-> "",
     user |-> [user EXCEPT
                 !.password_salt = salt,
                 !.password_hash = get_password_hash(salt, password)],
     checks |-> {},
     ret |-> salt]

update_name(cfg, user, name) ==
    LET stripped == Strip(name)
        name_regex == cfg.user_name_regex
    IN  IF ~ReMatch(name_regex, stripped)
        THEN Raised(ValidationError, NameMsg, user)
        ELSE Returned([user EXCEPT !.name = stripped], {"name"})

\* `salt` is what auth.create_password() returns at line 32
update_password(cfg, user, password, salt) ==
    LET password_regex == cfg.password_regex
    IN  IF ~ReMatch(password_regex, password)
        THEN Raised(ValidationError, PasswordMsg, user)
        ELSE Returned([user EXCEPT
                         !.password_salt = salt,
                         !.password_hash = get_password_hash(salt, password)],
                      {"password"})

update_email(user, email) ==
    LET stripped == Strip(email)
        e == IF stripped = <<>> THEN None ELSE stripped
    IN  IF ~is_valid_email(e)
        THEN Raised(ValidationError, EmailMsg, user)
        ELSE Returned([user EXCEPT !.email = e], {})

update_rank(cfg, user, rank, authenticated_user) ==
    LET stripped == Strip(rank)
        available_access_ranks == cfg.user_ranks
    IN  IF ~InList(available_access_ranks, stripped)
        THEN Raised(ValidationError, RankMsg, user)
        ELSE IF ~InList(available_access_ranks, authenticated_user.access_rank)
        THEN Raised(ValueError, NotInListMsg, user)
        ELSE IF Index(available_access_ranks, authenticated_user.access_rank)
                    < Index(available_access_ranks, stripped)
        THEN Raised(AuthError, HigherRankMsg, user)
        ELSE Returned([user EXCEPT !.access_rank = stripped], {})

bump_login_time(user, now) ==
    Returned([user EXCEPT !.last_login_time = now], {})

\* `password` and `salt` are what auth.create_password() returns at lines 60
\* and 61; the password is returned
reset_password(user, password, salt) ==
    [exc |-> OK, msg |-> "",
     user |-> [user EXCEPT
                 !.password_salt = salt,
                 !.password_hash = get_password_hash(salt, password)],
     checks |-> {},
     ret |-> password]

\* validates the email before the password
create_user_email_first(cfg, name, password, email, salt, now) ==
    LET r1 == update_name(cfg, NewUser, name)
        r2 == update_email(r1.user, email)
        r3 == update_password(cfg, r2.user, password, salt)
    IN  IF r1.exc # OK THEN [r1 EXCEPT !.user = None]
        ELSE IF r2.exc # OK
        THEN [r2 EXCEPT !.user = None, !.checks = r1.checks]
        ELSE IF r3.exc # OK
        THEN [r3 EXCEPT !.user = None, !.checks = r1.checks \cup r2.checks]
        ELSE Returned([r3.user EXCEPT
                         !.access_rank = cfg.default_user_rank,
                         !.creation_time = now,
                         !.avatar_style = AVATAR_GRAVATAR],
                      r1.checks \cup r3.checks)

\* `salt` is the generator's value inside update_password, `now` the clock's
\* at line 13; a call that raises returns no user
create_user(cfg, name, password, email, salt, now) ==
    LET r1 == update_name(cfg, NewUser, name)
        r2 == update_password(cfg, r1.user, password, salt)
        r3 == update_email(r2.user, email)
    IN  IF r1.exc # OK THEN [r1 EXCEPT !.user = None]
        ELSE IF r2.exc # OK
        THEN [r2 EXCEPT !.user = None, !.checks = r1.checks]
        ELSE IF r3.exc # OK
        THEN [r3 EXCEPT !.user = None, !.checks = r1.checks \cup r2.checks]
        ELSE Returned([r3.user EXCEPT
                         !.access_rank = cfg.default_user_rank,
                         !.creation_time = now,
                         !.avatar_style = AVATAR_GRAVATAR],
                      r1.checks \cup r2.checks)

(* ------------------------------ actions ------------------------------- *)
Pair(user) == <<user.password_salt, user.password_hash>>

\* the generator has values left
CanGenerate(n) == issued + n <= Len(GenDigits)

Done(op, u, a, r, ret) ==
    /\ calls' = calls + 1
    /\ last' = [op |-> op, user |-> u, actor |-> a, exc |-> r.exc, msg |-> r.msg,
                ret |-> ret, checks |-> r.checks]

\* the target's record becomes the record the call leaves
Store(u, r) == users' = [users EXCEPT ![u] = r.user]

\* a call that assigned credentials retires the pair held until then
Retire(u, r) ==
    held' = IF r.exc = OK THEN [held EXCEPT ![u] = @ \cup {Pair(users[u])}] ELSE held

Started ==
    /\ config \in Configs
    /\ users = [u \in Slots |-> NewUser]
    /\ start = users
    /\ created = {}
    /\ issued = 0
    /\ held = [u \in Slots |-> {}]
    /\ calls = 0
    /\ last = [op |-> "none", user |-> 0, actor |-> 0, exc |-> OK, msg |-> "",
               ret |-> None, checks |-> {}]

Init == Started /\ args = None

\* create_user(name, password, email); the new user takes the first free slot
CreateUser(u, name, password, email) ==
    /\ calls < MaxCalls
    /\ u \notin created
    /\ \A v \in Slots : v < u => v \in created
    /\ CanGenerate(1)
    /\ \E now \in Times :
        LET salt == create_password(issued + 1)
            r == create_user(config, name, password, email, salt, now)
        IN  /\ IF r.exc = OK
               THEN /\ Store(u, r)
                    /\ created' = created \cup {u}
               ELSE UNCHANGED <<users, created>>
            \* the generator has run once update_password got past its check
            /\ issued' = IF "password" \in r.checks THEN issued + 1 ELSE issued
            /\ Done("create_user", u, 0, r, r.user)
    /\ UNCHANGED <<config, held, args, start>>

UpdateName(u, name) ==
    /\ calls < MaxCalls
    /\ u \in created
    /\ LET r == update_name(config, users[u], name)
       IN  Store(u, r) /\ Done("update_name", u, 0, r, None)
    /\ UNCHANGED <<config, created, issued, held, args, start>>

UpdatePassword(u, password) ==
    /\ calls < MaxCalls
    /\ u \in created
    /\ CanGenerate(1)
    /\ LET salt == create_password(issued + 1)
           r == update_password(config, users[u], password, salt)
       IN  /\ Store(u, r)
           /\ Retire(u, r)
           /\ issued' = IF r.exc = OK THEN issued + 1 ELSE issued
           /\ Done("update_password", u, 0, r, None)
    /\ UNCHANGED <<config, created, args, start>>

UpdateEmail(u, email) ==
    /\ calls < MaxCalls
    /\ u \in created
    /\ LET r == update_email(users[u], email)
       IN  Store(u, r) /\ Done("update_email", u, 0, r, None)
    /\ UNCHANGED <<config, created, issued, held, args, start>>

UpdateRank(u, rank, a) ==
    /\ calls < MaxCalls
    /\ u \in created
    /\ LET r == update_rank(config, users[u], rank, users[a])
       IN  Store(u, r) /\ Done("update_rank", u, a, r, None)
    /\ UNCHANGED <<config, created, issued, held, args, start>>

BumpLoginTime(u) ==
    /\ calls < MaxCalls
    /\ u \in created
    /\ \E now \in Times :
        LET r == bump_login_time(users[u], now)
        IN  Store(u, r) /\ Done("bump_login_time", u, 0, r, None)
    /\ UNCHANGED <<config, created, issued, held, args, start>>

ResetPassword(u) ==
    /\ calls < MaxCalls
    /\ u \in created
    /\ CanGenerate(2)
    /\ LET password == create_password(issued + 1)
           salt == create_password(issued + 2)
           r == reset_password(users[u], password, salt)
       IN  /\ Store(u, r)
           /\ Retire(u, r)
           /\ issued' = issued + 2
           /\ Done("reset_password", u, 0, r, r.ret)
    /\ UNCHANGED <<config, created, args, start>>

Next ==
    \/ \E u \in Slots, name \in NameInputs, password \in PasswordInputs,
          email \in EmailInputs :
            CreateUser(u, name, password, email)
    \/ \E u \in Slots, name \in NameInputs : UpdateName(u, name)
    \/ \E u \in Slots, password \in PasswordInputs : UpdatePassword(u, password)
    \/ \E u \in Slots, email \in EmailInputs : UpdateEmail(u, email)
    \/ \E u \in Slots, rank \in RankInputs, a \in Slots : UpdateRank(u, rank, a)
    \/ \E u \in Slots : BumpLoginTime(u)
    \/ \E u \in Slots : ResetPassword(u)

Spec == Init /\ [][Next]_vars

\* create_user called with arguments fixed at the start
InitCreate ==
    /\ Started
    /\ args \in [name : NameInputs, password : PasswordInputs, email : EmailInputs]

NextCreate == \E u \in Slots : CreateUser(u, args.name, args.password, args.email)

SpecCreate == InitCreate /\ [][NextCreate]_vars

\* a user as create_user returned it, holding the rank given since
UserOfRank(cfg, u, rank) ==
    [create_user(cfg, <<97>>, <<97, 97>>, <<>>, create_password(u), <<-2, 1>>).user
        EXCEPT !.access_rank = rank]

\* update_rank called on users that exist already, each holding one of the
\* configured ranks
InitRank ==
    /\ config \in Configs
    /\ \E ranks \in [Slots -> {config.user_ranks[i] : i \in 1..Len(config.user_ranks)}] :
            users = [u \in Slots |-> UserOfRank(config, u, ranks[u])]
    /\ start = users
    /\ created = Slots
    /\ issued = MaxUsers
    /\ held = [u \in Slots |-> {}]
    /\ calls = 0
    /\ last = [op |-> "none", user |-> 0, actor |-> 0, exc |-> OK, msg |-> "",
               ret |-> None, checks |-> {}]
    /\ args = None

NextRank == \E u \in Slots, rank \in RankInputs, a \in Slots : UpdateRank(u, rank, a)

SpecRank == InitRank /\ [][NextRank]_vars

(* ------------------------------ properties ---------------------------- *)
Ranks == config.user_ranks

\* position of a listed rank, lowest privilege first
Pos(rank) == Index(Ranks, rank)

Listed(rank) == InList(Ranks, rank)

UpdateOps == {"update_name", "update_password", "update_email", "update_rank"}

\* C1: update_rank by an acting user of a listed rank, for a requested rank
\* that is listed once stripped: a requested rank above the acting user's
\* raises AuthError and leaves the target's rank as it was; a requested rank
\* at or below the acting user's succeeds and becomes the target's rank.
C1_RankAgainstActor ==
    [][last'.op = "update_rank" =>
       \A u \in Slots, a \in Slots, rank \in RankInputs :
        ( /\ UpdateRank(u, rank, a)
          /\ Listed(users[a].access_rank)
          /\ Listed(Strip(rank)) )
        => IF Pos(Strip(rank)) > Pos(users[a].access_rank)
           THEN /\ last'.exc = AuthError
                /\ users'[u].access_rank = users[u].access_rank
           ELSE /\ last'.exc = OK
                /\ users'[u].access_rank = Strip(rank)]_vars

\* a user asked for a rank above a different acting user's and was refused
C1_Witness ==
    /\ last.op = "update_rank"
    /\ last.exc = AuthError
    /\ last.actor # last.user
    /\ Listed(users[last.actor].access_rank)

\* C2, as claimed: a failed update_name, update_password, update_email or
\* update_rank leaves every field of every user as it was; update_name with
\* any name that does not match the configured regex raises ValidationError
\* and changes nothing.
C2_AsClaimed ==
    [][ /\ (last'.op \in UpdateOps /\ last'.exc # OK)
            => (last'.exc \in {ValidationError, AuthError, ValueError} /\ users' = users)
        /\ last'.op = "update_name" =>
           \A u \in Slots, name \in NameInputs :
            (UpdateName(u, name) /\ ~ReMatch(config.user_name_regex, name))
            => (last'.exc = ValidationError /\ users' = users) ]_vars

\* C2, amended: a failed update_name, update_password, update_email or
\* update_rank (ValidationError or AuthError, or the ValueError of an acting
\* user whose rank is not listed) leaves every field of every user as it was;
\* update_name with a name that, stripped of surrounding whitespace, does not
\* match the configured regex raises ValidationError and changes nothing; with
\* a name that does match once stripped, whether or not it matches as passed
\* in, it succeeds and stores the stripped name.
C2_FailureChangesNothing ==
    [][ /\ (last'.op \in UpdateOps /\ last'.exc # OK)
            => (last'.exc \in {ValidationError, AuthError, ValueError} /\ users' = users)
        /\ last'.op = "update_name" =>
           \A u \in Slots, name \in NameInputs :
            UpdateName(u, name) =>
                IF ~ReMatch(config.user_name_regex, Strip(name))
                THEN last'.exc = ValidationError /\ users' = users
                ELSE last'.exc = OK /\ users'[u].name = Strip(name) ]_vars

\* update_name was refused for a user that has a name
C2_Witness ==
    /\ last.op = "update_name"
    /\ last.exc = ValidationError
    /\ last.msg = NameMsg
    /\ users[last.user].name # None

\* C3: the rank of every created user is one of the configured ranks
C3_RankIsListed == \A u \in created : Listed(users[u].access_rank)

\* update_rank gave a user a rank other than the default one
C3_Witness ==
    /\ last.op = "update_rank"
    /\ last.exc = OK
    /\ users[last.user].access_rank # config.default_user_rank

\* C4, as claimed: whichever call assigns a name or a salt and hash, create_user,
\* update_name, update_password or reset_password, has matched that name
\* against the name regex, or the password the hash is made from against the
\* password regex.
C4_AsClaimed ==
    /\ (last.exc = OK /\ last.op \in {"create_user", "update_name"})
        => /\ "name" \in last.checks
           /\ ReMatch(config.user_name_regex, users[last.user].name)
    /\ (last.exc = OK
            /\ last.op \in {"create_user", "update_password", "reset_password"})
        => /\ "password" \in last.checks
           /\ ReMatch(config.password_regex,
                      PasswordOf(users[last.user].password_hash))

\* C4, amended: create_user and update_name assign a name only after matching
\* it against the name regex; create_user and update_password assign a salt
\* and hash only after matching the password against the password regex;
\* reset_password assigns a salt and hash made from a generated password that
\* it does not match against the password regex.
C4_CheckedBeforeAssigned ==
    /\ (last.exc = OK /\ last.op \in {"create_user", "update_name"})
        => /\ "name" \in last.checks
           /\ ReMatch(config.user_name_regex, users[last.user].name)
    /\ (last.exc = OK /\ last.op \in {"create_user", "update_password"})
        => /\ "password" \in last.checks
           /\ ReMatch(config.password_regex,
                      PasswordOf(users[last.user].password_hash))
    /\ last.op = "reset_password"
        => /\ "password" \notin last.checks
           /\ PasswordOf(users[last.user].password_hash) = last.ret

\* reset_password stored the hash of a password the password regex rejects
C4_Witness ==
    /\ last.op = "reset_password"
    /\ last.exc = OK
    /\ ~ReMatch(config.password_regex, PasswordOf(users[last.user].password_hash))

\* C5: update_password with a password matching the password regex succeeds,
\* replaces the salt and the hash, the hash being that of the new salt and
\* the password passed in, and the new pair is none the user has held.
C5_UpdatePassword ==
    [][last'.op = "update_password" =>
       \A u \in Slots, password \in PasswordInputs :
        (UpdatePassword(u, password) /\ ReMatch(config.password_regex, password))
        => /\ last'.exc = OK
           /\ users'[u].password_salt # users[u].password_salt
           /\ users'[u].password_hash # users[u].password_hash
           /\ users'[u].password_hash =
                    get_password_hash(users'[u].password_salt, password)
           /\ Pair(users[u]) \in held'[u]
           /\ Pair(users'[u]) \notin held'[u]]_vars

\* update_password succeeded for a user that had held two pairs before
C5_Witness ==
    /\ last.op = "update_password"
    /\ last.exc = OK
    /\ Cardinality(held[last.user]) >= 2

\* C6: reset_password succeeds, replaces the salt and the hash, and returns
\* a password whose hash with the stored salt is the stored hash; no field of
\* any user record holds the returned password.
C6_ResetPassword ==
    [][(last'.op = "reset_password" /\ calls' = calls + 1) =>
       LET u == last'.user
       IN  /\ last'.exc = OK
           /\ last'.ret # None
           /\ users'[u].password_salt # users[u].password_salt
           /\ users'[u].password_hash # users[u].password_hash
           /\ users'[u].password_hash =
                    get_password_hash(users'[u].password_salt, last'.ret)
           /\ \A v \in Slots, f \in Fields : users'[v][f] # last'.ret]_vars

\* reset_password returned a password that verifies against the stored pair
C6_Witness ==
    /\ last.op = "reset_password"
    /\ last.exc = OK
    /\ last.ret # None
    /\ users[last.user].password_hash =
            get_password_hash(users[last.user].password_salt, last.ret)

\* C7: update_email with the empty string or with whitespace only succeeds
\* and leaves the email None.
C7_EmptyEmail ==
    [][last'.op = "update_email" =>
       \A u \in Slots, email \in EmailInputs :
        ( /\ UpdateEmail(u, email)
          /\ \A i \in 1..Len(email) : email[i] \in Whitespace )
        => /\ last'.exc = OK
           /\ users'[u].email = None]_vars

\* update_email succeeded and the user has no email
C7_Witness ==
    /\ last.op = "update_email"
    /\ last.exc = OK
    /\ users[last.user].email = None

\* the email update_email stores for an input: stripped, and None when empty
EmailOf(email) == IF Strip(email) = <<>> THEN None ELSE Strip(email)

\* C8: create_user raises ValidationError and returns no user when the name,
\* the password or the email fails its validation, the first of them in that
\* order deciding the error; otherwise it returns a user with the stripped
\* name, a hash of its salt and the password, the stripped email or None, the
\* configured default rank, the gravatar avatar style and a creation time.
C8_CreateUser ==
    [][(last'.op = "create_user" /\ calls' = calls + 1) =>
       LET u == last'.user
           refused(msg) ==
                /\ last'.exc = ValidationError /\ last'.msg = msg
                /\ last'.ret = None /\ users' = users /\ created' = created
       IN  IF ~ReMatch(config.user_name_regex, Strip(args.name))
           THEN refused(NameMsg)
           ELSE IF ~ReMatch(config.password_regex, args.password)
           THEN refused(PasswordMsg)
           ELSE IF ~is_valid_email(EmailOf(args.email))
           THEN refused(EmailMsg)
           ELSE /\ last'.exc = OK
                /\ created' = created \cup {u}
                /\ last'.ret = users'[u]
                /\ users'[u].name = Strip(args.name)
                /\ users'[u].password_salt # None
                /\ users'[u].password_hash =
                        get_password_hash(users'[u].password_salt, args.password)
                /\ users'[u].email = EmailOf(args.email)
                /\ users'[u].access_rank = config.default_user_rank
                /\ users'[u].avatar_style = AVATAR_GRAVATAR
                /\ users'[u].creation_time # None]_vars

\* create_user returned a user with an email, for a name typed with whitespace
\* around
C8_Witness ==
    /\ last.op = "create_user"
    /\ last.exc = OK
    /\ last.user \in created
    /\ args.name # Strip(args.name)
    /\ users[last.user].name = Strip(args.name)
    /\ users[last.user].email # None
    /\ users[last.user].creation_time \in Times

\* the fields of user v that the step changes
ChangedFields(v) == {f \in Fields : users'[v][f] # users[v][f]}

\* a step of `op` changes at most `fields`, and only of the user it is called on
OnlyChanges(op, fields) ==
    last'.op = op =>
        \A v \in Slots : /\ ChangedFields(v) \subseteq fields
                         /\ ChangedFields(v) # {} => v = last'.user

\* C9: update_name changes only the name; update_password and reset_password
\* only the salt and hash; update_email only the email; update_rank only the
\* target's rank, never a field of another user; bump_login_time only the
\* last login time, and it never fails.  The creation time and the avatar
\* style of a created user never change.
C9_Frame ==
    [][ /\ OnlyChanges("update_name", {"name"})
        /\ OnlyChanges("update_password", {"password_salt", "password_hash"})
        /\ OnlyChanges("reset_password", {"password_salt", "password_hash"})
        /\ OnlyChanges("update_email", {"email"})
        /\ OnlyChanges("update_rank", {"access_rank"})
        /\ OnlyChanges("bump_login_time", {"last_login_time"})
        /\ last'.op = "bump_login_time" => last'.exc = OK
        /\ \A u \in created :
            /\ users'[u].creation_time = users[u].creation_time
            /\ users'[u].avatar_style = users[u].avatar_style ]_vars

\* bump_login_time stamped a time other than the creation time
C9_Witness ==
    /\ last.op = "bump_login_time"
    /\ last.exc = OK
    /\ users[last.user].last_login_time \in Times
    /\ users[last.user].last_login_time # users[last.user].creation_time

\* the highest position a rank of the created users has in `records`
HighestPosIn(records) ==
    IF created = {} THEN 0
    ELSE CHOOSE p \in {Pos(records[u].access_rank) : u \in created} :
            \A u \in created : Pos(records[u].access_rank) <= p

HighestPos == HighestPosIn(users)

\* C10: users that all hold configured ranks, and update_rank calls with any
\* of them acting on any of them: in every state reached, every rank held
\* is a configured one and the highest position a user's rank has is at most
\* the highest one held at the start.
C10_NoEscalation ==
    /\ \A u \in created : Listed(users[u].access_rank)
    /\ HighestPos <= HighestPosIn(start)

\* a chain over two users: a user lowered since the start has given another
\* user a rank above the one that user started with
C10_Witness ==
    /\ last.op = "update_rank"
    /\ last.exc = OK
    /\ last.actor # last.user
    /\ Pos(users[last.actor].access_rank) < Pos(start[last.actor].access_rank)
    /\ Pos(users[last.user].access_rank) > Pos(start[last.user].access_rank)

====
